---- MODULE Spec2Model ----
(***************************************************************************)
(* Model of streamlit_app.py: a Streamlit script that is re-executed from  *)
(* top to bottom on every browser event (button click, widget change,      *)
(* auto-refresh timer), fetches KoboToolbox submissions and renders        *)
(* metrics, a filtered table, a value-count chart, a map and a CSV export. *)
(*                                                                         *)
(* One script run is cut at its only blocking call, requests.get, and at   *)
(* the point where the data widgets are read:                              *)
(*     idle -> fetching -> rendering -> idle                               *)
(* Column names are sequences of characters so that lower() and the        *)
(* substring test `"lat" in c.lower()` are computed, not assumed.          *)
(***************************************************************************)
EXTENDS Integers, Sequences, FiniteSets, TLC

\* ------------------------------------------------------------------------
\* Bounds and input sets
\* ------------------------------------------------------------------------
MaxRows == 3

NULL == "null"
LIST == "list"      \* a nested array kept as-is by json_normalize: unhashable

Tokens == {"", "tok"}
FormIds == {"", "form1"}
StatusCodes == {200, 401, 500}

\* Column layouts of the responses: names and the cell values seen per column.
Layouts ==
  { [cols |-> <<>>, doms |-> <<>>],
    [cols |-> << <<"a">>, <<"b">> >>,
     doms |-> << {NULL, "x", "y"}, {NULL, "x"} >>],
    [cols |-> << <<"l","a","t">>, <<"l","o","n">> >>,
     doms |-> << {NULL, "x"}, {NULL, "x"} >>],
    [cols |-> << <<"l","o","n">>, <<"l","a","t">> >>,
     doms |-> << {NULL, "x"}, {NULL, "y"} >>],
    [cols |-> << <<"a">>, <<"l","a","t">> >>,
     doms |-> << {"x"}, {NULL, "x"} >>],
    [cols |-> << <<"L","a","t">>, <<"g">>, <<"L","O","N">> >>,
     doms |-> << {NULL, "x"}, {"x"}, {NULL, "y"} >>],
    [cols |-> << <<"l","a","t">>, <<"l","a","t","2">>, <<"l","o","n">> >>,
     doms |-> << {"x"}, {NULL, "y"}, {NULL, "x"} >>],
    [cols |-> << <<"l","a","t">>, <<"l","n","g">> >>,
     doms |-> << {LIST, "x"}, {"x"} >>],
    [cols |-> << <<"t","a","g","s">>, <<"l","a","t">>, <<"l","o","n">> >>,
     doms |-> << {LIST, "x"}, {NULL, "x"}, {"x"} >>] }

\* ------------------------------------------------------------------------
\* Sequence helpers
\* ------------------------------------------------------------------------
Range(s) == {s[i] : i \in DOMAIN s}

NoDup(s) == \A i, j \in DOMAIN s : i # j => s[i] # s[j]

\* all sequences without repetition over the set S
DistinctSeqs(S) ==
  UNION {{s \in [1..n -> S] : NoDup(s)} : n \in 0..Cardinality(S)}

Count(s, v) == Cardinality({i \in DOMAIN s : s[i] = v})

\* ------------------------------------------------------------------------
\* Tables (pandas DataFrame / Series)
\* ------------------------------------------------------------------------
None == [tag |-> "None", cols |-> <<>>, rows |-> <<>>]

DataFrame(cols, rows) == [tag |-> "df", cols |-> cols, rows |-> rows]

RowsOf(L) ==
  {r \in [1..Len(L.cols) -> UNION Range(L.doms) \cup {NULL}] :
      \A i \in 1..Len(L.cols) : r[i] \in L.doms[i]}

\* the "results" arrays a 200 response may carry
Results ==
  {[cols |-> <<>>, rows |-> <<>>]} \cup
  UNION {{[cols |-> L.cols, rows |-> rs] :
            rs \in UNION {[1..n -> RowsOf(L)] : n \in 1..MaxRows}} :
         L \in Layouts}

\* pd.json_normalize: one row per record; an empty list gives a frame
\* with no rows and no columns
json_normalize(results) ==
  IF results.rows = <<>> THEN DataFrame(<<>>, <<>>)
  ELSE DataFrame(results.cols, results.rows)

\* variant: tests for a missing frame instead of an empty one
empty_is_none(d) == d = None

\* DataFrame.empty: any axis of length 0
empty(d) == Len(d.rows) = 0 \/ Len(d.cols) = 0

ColIdx(d, c) == CHOOSE i \in DOMAIN d.cols : d.cols[i] = c

\* d[c]
Column(d, c) == [r \in DOMAIN d.rows |-> d.rows[r][ColIdx(d, c)]]

notnull(v) == v # NULL

\* Series.dropna()
dropna(s) == SelectSeq(s, notnull)

Unhashable(s) == LIST \in Range(s)

\* Series.unique(): distinct values in first-seen order
RECURSIVE unique(_)
unique(s) ==
  IF s = <<>> THEN <<>>
  ELSE LET u == unique(SubSeq(s, 1, Len(s) - 1))
           v == s[Len(s)]
       IN IF v \in Range(u) THEN u ELSE Append(u, v)

\* the options of the value multiselect of a column (line 109)
Options(d, c) == Range(unique(dropna(Column(d, c))))

\* fd[fd[c].isin(vs)]
isin_rows(fd, c, vs) ==
  LET i == ColIdx(fd, c)
      keep(r) == r[i] \in vs
  IN DataFrame(fd.cols, SelectSeq(fd.rows, keep))

\* variant: only the first selected column is applied
filter_first_only(fd, fcols, vals) ==
  IF fcols = <<>> THEN fd
  ELSE IF vals[Head(fcols)] # {}
       THEN isin_rows(fd, Head(fcols), vals[Head(fcols)])
       ELSE fd

\* lines 106-111: the filter loop; vals[col] is the value multiselect of col
RECURSIVE filter_loop(_, _, _)
filter_loop(fd, fcols, vals) ==
  IF fcols = <<>> THEN fd
  ELSE LET col == Head(fcols)
       IN filter_loop(IF vals[col] # {} THEN isin_rows(fd, col, vals[col])
                      ELSE fd,
                      Tail(fcols), vals)

\* ------------------------------------------------------------------------
\* Column-name matching (line 150)
\* ------------------------------------------------------------------------
lower_char(ch) ==
  CASE ch = "L" -> "l" [] ch = "A" -> "a" [] ch = "T" -> "t"
    [] ch = "O" -> "o" [] ch = "N" -> "n" [] OTHER -> ch

lower(name) == [i \in DOMAIN name |-> lower_char(name[i])]

\* sub in name
contains(sub, name) ==
  \E i \in 1..(Len(name) - Len(sub) + 1) :
     SubSeq(name, i, i + Len(sub) - 1) = sub

has_lat(c) == contains(<<"l","a","t">>, lower(c))
has_lon(c) == contains(<<"l","o","n">>, lower(c))
is_geo(c) == has_lat(c) \/ has_lon(c)

geo_cols(d) == SelectSeq(d.cols, is_geo)

\* ------------------------------------------------------------------------
\* Chart and map data (lines 131, 155-158)
\* ------------------------------------------------------------------------
\* the frequency entries of a series in first-seen order
counts_of(s) ==
  LET u == unique(dropna(s))
  IN [i \in DOMAIN u |-> [value |-> u[i], count |-> Count(s, u[i])]]

descending(cd) ==
  \A i, j \in DOMAIN cd : i < j => cd[i].count >= cd[j].count

\* variant: the entries are left in first-seen order
value_counts_unsorted(s) ==
  IF Unhashable(s) THEN {} ELSE {counts_of(s)}

\* Series.value_counts(): the possible results; the order among equal
\* counts is not fixed by pandas.  Raises (no result) on unhashable values.
value_counts(s) ==
  IF Unhashable(s) THEN {}
  ELSE LET E == Range(counts_of(s))
       IN {cd \in [1..Cardinality(E) -> E] : NoDup(cd) /\ descending(cd)}

\* lines 155-156
lat_of(gc) == gc[1]
lon_of(gc) == gc[2]

\* variant: the projection without dropna()
map_frame_keepna(fd, lat, lon) ==
  LET i == ColIdx(fd, lat)
      j == ColIdx(fd, lon)
  IN DataFrame(<<lat, lon>>,
               [r \in DOMAIN fd.rows |-> <<fd.rows[r][i], fd.rows[r][j]>>])

\* fd[[lat, lon]].dropna()
map_frame(fd, lat, lon) ==
  LET i == ColIdx(fd, lat)
      j == ColIdx(fd, lon)
      proj == [r \in DOMAIN fd.rows |-> <<fd.rows[r][i], fd.rows[r][j]>>]
      full(r) == notnull(r[1]) /\ notnull(r[2])
  IN DataFrame(<<lat, lon>>, SelectSeq(proj, full))

\* st.map needs numeric coordinates
map_raises(md) == \E r \in DOMAIN md.rows : LIST \in Range(md.rows[r])

\* ------------------------------------------------------------------------
\* fetch_kobo_data (lines 40-56)
\* ------------------------------------------------------------------------
NoResults == [cols |-> <<>>, rows |-> <<>>]

Responses ==
  {[raised |-> TRUE, status |-> 0, json_ok |-> FALSE, results |-> NoResults]}
  \cup {[raised |-> FALSE, status |-> s, json_ok |-> j,
         results |-> NoResults] : s \in StatusCodes, j \in BOOLEAN}
  \cup {[raised |-> FALSE, status |-> 200, json_ok |-> TRUE, results |-> r] :
          r \in Results}

NoResponse ==
  [raised |-> FALSE, status |-> 0, json_ok |-> FALSE, results |-> NoResults]

\* variant: the status code is not looked at
fetch_kobo_data_any_status(resp) ==
  IF resp.raised THEN [df |-> None, error |-> TRUE]
  ELSE IF ~resp.json_ok THEN [df |-> None, error |-> TRUE]
  ELSE [df |-> json_normalize(resp.results), error |-> FALSE]

fetch_kobo_data(resp) ==
  IF resp.raised THEN [df |-> None, error |-> TRUE]
  ELSE IF resp.status # 200 THEN [df |-> None, error |-> TRUE]
  ELSE IF ~resp.json_ok THEN [df |-> None, error |-> TRUE]
  ELSE [df |-> json_normalize(resp.results), error |-> FALSE]

\* variant: warns only when both are empty
creds_missing_both(token, form) == token = "" /\ form = ""

\* line 64
creds_missing(token, form) == token = "" \/ form = ""

\* ------------------------------------------------------------------------
\* State
\* ------------------------------------------------------------------------
VARIABLES
  pc,              \* position of the script run: idle, fetching, rendering
  w_token, w_form, \* browser state of the two text inputs
  api_token, form_id, start_dashboard,  \* script variables of the run
  trigger,         \* what caused the run: load, click, tick, widget
  pending, pending_click, pending_trigger,  \* rerun request queued
  launched,        \* a run has passed the credentials guard
  inflight,        \* HTTP requests issued and not yet returned
  fetch_calls,     \* calls of fetch_kobo_data in the run
  resp,            \* the response the run's fetch got
  ending,          \* running, finished, stopped, aborted, crashed
  shown,           \* elements the run has put on the page
  steps,           \* render steps the run has executed, in order
  df, filter_cols, vals, filtered_df,
  chart_col, chart_data, lat_col, lon_col, map_df

widgets == <<w_token, w_form>>
queue == <<pending, pending_click, pending_trigger>>
data == <<df, filter_cols, vals, filtered_df, chart_col, chart_data,
          lat_col, lon_col, map_df>>
run == <<pc, api_token, form_id, start_dashboard, trigger, launched, inflight,
         fetch_calls, resp, ending, shown, steps>>
vars == <<widgets, queue, run, data>>

NoName == <<>>

ClearData ==
  /\ df' = None /\ filter_cols' = <<>> /\ vals' = <<>> /\ filtered_df' = None
  /\ chart_col' = NoName /\ chart_data' = <<>>
  /\ lat_col' = NoName /\ lon_col' = NoName /\ map_df' = None

Init ==
  /\ pc = "idle" /\ w_token = "" /\ w_form = ""
  /\ api_token = "" /\ form_id = "" /\ start_dashboard = FALSE
  /\ trigger = "load"
  /\ pending = FALSE /\ pending_click = FALSE /\ pending_trigger = "none"
  /\ launched = FALSE /\ inflight = 0 /\ fetch_calls = 0
  /\ resp = NoResponse /\ ending = "finished"
  /\ shown = {} /\ steps = <<>>
  /\ df = None /\ filter_cols = <<>> /\ vals = <<>> /\ filtered_df = None
  /\ chart_col = NoName /\ chart_data = <<>>
  /\ lat_col = NoName /\ lon_col = NoName /\ map_df = None

\* ------------------------------------------------------------------------
\* Script runs
\* ------------------------------------------------------------------------
\* variant: a run in progress does not hold back a new one
Busy_queue_only == pending

\* A script run is in progress or a rerun is already queued: the session
\* runs one script at a time and queues rerun requests.
Busy == pc # "idle" \/ pending

\* Lines 11-68: the run from the top to its end or to requests.get.
BeginRun(btn, trig, tok, frm) ==
  /\ api_token' = tok /\ form_id' = frm
  /\ start_dashboard' = btn /\ trigger' = trig
  /\ resp' = NoResponse /\ steps' = <<>>
  /\ ClearData
  /\ IF ~btn
     THEN /\ pc' = "idle" /\ ending' = "finished" /\ shown' = {}
          /\ fetch_calls' = 0
          /\ UNCHANGED <<inflight, launched>>
     ELSE IF creds_missing(tok, frm)
     THEN /\ pc' = "idle" /\ ending' = "stopped"
          /\ shown' = {"creds_warning"}
          /\ fetch_calls' = 0
          /\ UNCHANGED <<inflight, launched>>
     ELSE /\ pc' = "fetching" /\ ending' = "running" /\ shown' = {}
          /\ fetch_calls' = 1
          /\ inflight' = inflight + 1
          /\ launched' = TRUE

\* A browser event: starts a run, or is queued when one is in progress
\* (queued requests are merged; a queued button click is kept).
Event(btn, trig, tok, frm) ==
  /\ w_token' = tok /\ w_form' = frm
  /\ IF Busy
     THEN /\ pending' = TRUE
          /\ pending_click' = (pending_click \/ btn)
          /\ pending_trigger' = IF pending_click \/ btn THEN "click" ELSE trig
          /\ UNCHANGED <<run, data>>
     ELSE /\ BeginRun(btn, trig, tok, frm)
          /\ UNCHANGED queue

\* line 32: the launch button
Click == Event(TRUE, "click", w_token, w_form)

\* line 35: the auto-refresh timer fires
Tick == Event(FALSE, "tick", w_token, w_form)

\* lines 25-26: the text inputs
EditToken == \E t \in Tokens \ {w_token} : Event(FALSE, "widget", t, w_form)
EditForm == \E f \in FormIds \ {w_form} : Event(FALSE, "widget", w_token, f)

\* lines 28, 102, 109, 128: slider, multiselects, selectbox
WidgetChange == Event(FALSE, "widget", w_token, w_form)

\* the queued rerun starts once the script has stopped
RunPending ==
  /\ pc = "idle" /\ pending
  /\ BeginRun(pending_click, pending_trigger, w_token, w_form)
  /\ pending' = FALSE /\ pending_click' = FALSE /\ pending_trigger' = "none"
  /\ UNCHANGED widgets

\* the run is interrupted at its next st call by a queued rerun
Abort ==
  /\ pc' = "idle" /\ ending' = "aborted"
  /\ UNCHANGED <<api_token, form_id, start_dashboard, trigger, launched,
                 fetch_calls, shown, steps>>

\* Lines 46-77: requests.get returns; the rest of fetch_kobo_data and the
\* two checks on its result.
FetchReturn ==
  /\ pc = "fetching"
  /\ \E r \in Responses :
       LET out == fetch_kobo_data(r) IN
       /\ resp' = r
       /\ inflight' = inflight - 1
       /\ IF pending
          THEN Abort /\ UNCHANGED data
          ELSE /\ UNCHANGED <<api_token, form_id, start_dashboard, trigger,
                              launched, fetch_calls, steps>>
               /\ df' = out.df
               /\ UNCHANGED <<filter_cols, vals, filtered_df, chart_col,
                              chart_data, lat_col, lon_col, map_df>>
               /\ IF out.df = None
                  THEN /\ pc' = "idle" /\ ending' = "stopped"
                       /\ shown' = IF out.error THEN {"error"} ELSE {}
                  ELSE IF empty(out.df)
                  THEN /\ pc' = "idle" /\ ending' = "stopped"
                       /\ shown' = {"info"}
                  ELSE /\ pc' = "rendering" /\ ending' = "running"
                       /\ shown' = {"title"}
  /\ UNCHANGED <<widgets, queue>>

\* ------------------------------------------------------------------------
\* The render pass (lines 78-176)
\* ------------------------------------------------------------------------
\* what the multiselects of lines 102 and 109 may hold
FilterColChoices(d) == DistinctSeqs(Range(d.cols))

filter_raises(d, fcols) ==
  \E c \in Range(fcols) : Unhashable(Column(d, c))

ValChoices(d, fcols) ==
  IF filter_raises(d, fcols) THEN {[c \in Range(fcols) |-> {}]}
  ELSE LET V == UNION {Options(d, c) : c \in Range(fcols)}
       IN {v \in [Range(fcols) -> SUBSET V] :
             \A c \in Range(fcols) : v[c] \subseteq Options(d, c)}

\* variant: the chart error is not contained
chart_except_raise == "raise"

\* line 142: what the except clause around the chart does
chart_except == "warn"

\* the possible outcomes of the render pass of frame d with the widget
\* values fcols, v (filters) and cc (chart column)
render(d, fcols, v, cc) ==
  LET base == [shown |-> {"title", "metrics"}, steps |-> <<"metrics">>,
               ending |-> "crashed", filtered_df |-> None,
               chart_data |-> <<>>, lat_col |-> NoName, lon_col |-> NoName,
               map_df |-> None]
  IN
  IF filter_raises(d, fcols)
  THEN {[base EXCEPT !.shown = @ \cup {"exception"}]}
  ELSE
    LET fd == filter_loop(d, fcols, v)
        counts == value_counts(Column(fd, cc))
        gc == geo_cols(d)
        has_map == Len(gc) >= 2
        lat == IF has_map THEN lat_of(gc) ELSE NoName
        lon == IF has_map THEN lon_of(gc) ELSE NoName
        md == IF has_map THEN map_frame(fd, lat, lon) ELSE None
        tabled == [base EXCEPT !.shown = @ \cup {"table"},
                               !.steps = @ \o <<"filter", "table">>,
                               !.filtered_df = fd]
        rest(r) ==
          [r EXCEPT
             !.shown = @ \cup (IF ~has_map THEN {}
                               ELSE IF map_raises(md) THEN {"map_warning"}
                               ELSE {"map"})
                         \cup {"download"},
             !.steps = @ \o (IF has_map THEN <<"map">> ELSE <<>>)
                         \o <<"export">>,
             !.lat_col = lat, !.lon_col = lon, !.map_df = md,
             !.ending = "finished"]
    IN
    IF counts = {}
    THEN IF chart_except = "warn"
         THEN {rest([tabled EXCEPT !.shown = @ \cup {"chart_warning"},
                                   !.steps = Append(@, "chart")])}
         ELSE {[tabled EXCEPT !.shown = @ \cup {"exception"},
                              !.steps = Append(@, "chart")]}
    ELSE {rest([tabled EXCEPT !.shown = @ \cup {"chart"},
                              !.steps = Append(@, "chart"),
                              !.chart_data = cd]) : cd \in counts}

Render ==
  /\ pc = "rendering"
  /\ IF pending
     THEN Abort /\ UNCHANGED <<inflight, resp, data>>
     ELSE \E fcols \in FilterColChoices(df) :
          \E v \in ValChoices(df, fcols) :
          \E cc \in Range(df.cols) :
          \E out \in render(df, fcols, v, cc) :
            /\ pc' = "idle"
            /\ ending' = out.ending
            /\ shown' = out.shown
            /\ steps' = out.steps
            /\ filter_cols' = fcols /\ vals' = v /\ chart_col' = cc
            /\ filtered_df' = out.filtered_df
            /\ chart_data' = out.chart_data
            /\ lat_col' = out.lat_col /\ lon_col' = out.lon_col
            /\ map_df' = out.map_df
            /\ UNCHANGED <<df, api_token, form_id, start_dashboard, trigger,
                           launched, inflight, fetch_calls, resp>>
  /\ UNCHANGED <<widgets, queue>>

Next ==
  \/ Click
  \/ Tick
  \/ EditToken
  \/ EditForm
  \/ WidgetChange
  \/ RunPending
  \/ FetchReturn
  \/ Render

Spec == Init /\ [][Next]_vars

\* ------------------------------------------------------------------------
\* Properties
\* ------------------------------------------------------------------------
DataViews == {"metrics", "table", "chart", "map", "download"}

FetchFailed == resp.raised \/ resp.status # 200 \/ ~resp.json_ok

Cell(d, r, c) == d.rows[r][ColIdx(d, c)]

RECURSIVE SumCounts(_)
SumCounts(cd) ==
  IF cd = <<>> THEN 0 ELSE Head(cd).count + SumCounts(Tail(cd))

\* C1: every run started by an auto-refresh tick, once the dashboard has
\* been launched with a non-empty token and form id, calls fetch_kobo_data
\* exactly once.
C1_TickFetchesOnce ==
  (pc = "idle" /\ ~pending /\ trigger = "tick" /\ launched
     /\ api_token # "" /\ form_id # "")
  => fetch_calls = 1

\* C2: a run whose fetch got a non-200 status or raised (request or JSON
\* parsing), and that was not cut short by a queued rerun, shows the error
\* message, has no table, renders no data view, and ends idle so that the
\* next event starts a new run.
C2_FetchFailureHalts ==
  (fetch_calls = 1 /\ pc # "fetching" /\ ending # "aborted" /\ FetchFailed)
  => /\ pc = "idle" /\ ending = "stopped"
     /\ "error" \in shown
     /\ shown \cap DataViews = {}
     /\ df = None /\ steps = <<>>

C2_Witness ==
  /\ pc = "idle" /\ fetch_calls = 1 /\ resp.status = 401
  /\ shown = {"error"}

\* C3: at most one request is in flight, and a request is issued only from
\* the idle state, with no other request in flight, whatever events arrive.
C3_NoOverlap ==
  /\ [](inflight <= 1 /\ (inflight = 1 <=> pc = "fetching"))
  /\ [][inflight' > inflight => (pc = "idle" /\ inflight = 0)]_vars

C3_Witness == pc = "fetching" /\ pending /\ pending_trigger = "tick"

\* C4 (as stated): the filtered table holds exactly the rows whose value is
\* in the accepted set of every selected column.
C4_Original ==
  ("filter" \in Range(steps))
  => LET passes(r) ==
           \A c \in Range(filter_cols) : r[ColIdx(df, c)] \in vals[c]
     IN filtered_df.rows = SelectSeq(df.rows, passes)

\* C4 (amended): the filtered table holds exactly the rows whose value is
\* in the accepted set of every selected column that has a non-empty
\* accepted set; nulls never match, the rows are no more than the input's,
\* and an empty selection gives the table unchanged.
C4_FilterNonEmptySets ==
  ("filter" \in Range(steps))
  => LET passes(r) ==
           \A c \in Range(filter_cols) :
              vals[c] # {} => r[ColIdx(df, c)] \in vals[c]
     IN /\ filtered_df.cols = df.cols
        /\ filtered_df.rows = SelectSeq(df.rows, passes)
        /\ Len(filtered_df.rows) <= Len(df.rows)
        /\ \A c \in Range(filter_cols) : vals[c] # {} =>
              \A r \in DOMAIN filtered_df.rows : Cell(filtered_df, r, c) # NULL
        /\ (filter_cols = <<>> => filtered_df = df)

C4_Witness ==
  /\ "filter" \in Range(steps)
  /\ Len(filter_cols) = 2
  /\ \A c \in Range(filter_cols) : vals[c] # {}
  /\ Len(filtered_df.rows) = 1 /\ Len(df.rows) = 3
  /\ \E r \in DOMAIN df.rows : \E c \in Range(filter_cols) : Cell(df, r, c) = NULL

\* C5: when a map is drawn, the latitude column is the first column whose
\* name contains "lat" and the longitude column the first whose name
\* contains "lon".
C5_ColumnsByRole ==
  ("map" \in Range(steps))
  => LET lats == SelectSeq(df.cols, has_lat)
         lons == SelectSeq(df.cols, has_lon)
     IN /\ lats # <<>> => lat_col = lats[1]
        /\ lons # <<>> => lon_col = lons[1]

\* C6: in a completed render pass, with fewer than two lat/lon-like columns
\* there is no geo table, no map step and no error; otherwise the geo table
\* has exactly the two chosen columns, no null coordinate, and one row for
\* each filtered row with both coordinates non-null, in order.
C6_GeoTable ==
  ("export" \in Range(steps))
  => LET gc == geo_cols(df)
         both(r) == Cell(filtered_df, r, lat_col) # NULL
                    /\ Cell(filtered_df, r, lon_col) # NULL
         kept == {r \in DOMAIN filtered_df.rows : both(r)}
     IN IF Len(gc) < 2
        THEN /\ map_df = None /\ ~("map" \in Range(steps))
             /\ shown \cap {"map", "map_warning", "exception"} = {}
        ELSE /\ lat_col = gc[1] /\ lon_col = gc[2] /\ lat_col # lon_col
             /\ map_df.cols = <<lat_col, lon_col>>
             /\ \A r \in DOMAIN map_df.rows :
                  Len(map_df.rows[r]) = 2 /\ ~(NULL \in Range(map_df.rows[r]))
             /\ Len(map_df.rows) = Cardinality(kept)
             /\ \A r \in kept :
                  LET k == Cardinality({q \in kept : q <= r})
                  IN map_df.rows[k] = <<Cell(filtered_df, r, lat_col),
                                        Cell(filtered_df, r, lon_col)>>

C6_Witness ==
  /\ "map" \in shown
  /\ Len(map_df.rows) = 1 /\ Len(filtered_df.rows) = 3

C6_WitnessNoMap ==
  "export" \in Range(steps) /\ Len(geo_cols(df)) = 1

\* C7: the chart's frequency table has one entry per distinct non-null
\* value of the chosen column of the filtered table, each with the number
\* of rows holding it; the counts add up to the non-null entries, and the
\* entries are in descending order of count.
C7_ValueCounts ==
  ("chart" \in shown)
  => LET s == Column(filtered_df, chart_col)
         nonnull == {r \in DOMAIN s : s[r] # NULL}
     IN /\ {chart_data[i].value : i \in DOMAIN chart_data}
             = {s[r] : r \in nonnull}
        /\ \A i, j \in DOMAIN chart_data :
             i # j => chart_data[i].value # chart_data[j].value
        /\ \A i \in DOMAIN chart_data :
             chart_data[i].count =
               Cardinality({r \in DOMAIN s : s[r] = chart_data[i].value})
        /\ SumCounts(chart_data) = Cardinality(nonnull)
        /\ \A i \in 1..(Len(chart_data) - 1) :
             chart_data[i].count >= chart_data[i + 1].count

C7_Witness ==
  /\ "chart" \in shown
  /\ Len(chart_data) = 2
  /\ chart_data[1].count = 2 /\ chart_data[2].count = 1
  /\ Column(filtered_df, chart_col)[1] = chart_data[2].value

\* C8: a run that reaches the chart step goes on to the map step (when
\* there are two lat/lon-like columns) and then to the export step, and a
\* failed chart leaves a warning, not an exception.
C8_ChartFailureContained ==
  (pc = "idle" /\ "chart" \in Range(steps))
  => \E i, j \in DOMAIN steps :
       /\ i < j /\ steps[i] = "chart" /\ steps[j] = "export"
       /\ "download" \in shown
       /\ ~("exception" \in shown)
       /\ ("chart" \in shown) # ("chart_warning" \in shown)
       /\ Len(geo_cols(df)) >= 2 =>
            \E k \in DOMAIN steps : i < k /\ k < j /\ steps[k] = "map"

C8_Witness ==
  /\ "chart_warning" \in shown /\ "map" \in shown /\ "download" \in shown
  /\ Unhashable(Column(filtered_df, chart_col))

\* C9: a run whose fetch got status 200 and zero records, and that was not
\* cut short by a queued rerun, ends with the informational message only:
\* no data view and no error.
C9_EmptyResultInfo ==
  (fetch_calls = 1 /\ pc # "fetching" /\ ending # "aborted"
     /\ ~FetchFailed /\ resp.results.rows = <<>>)
  => /\ pc = "idle" /\ ending = "stopped"
     /\ shown = {"info"}
     /\ steps = <<>>

C9_Witness ==
  /\ pc = "idle" /\ fetch_calls = 1 /\ resp.status = 200 /\ resp.json_ok
  /\ resp.results.rows = <<>> /\ shown = {"info"}

\* C10: a request is issued only by a run in which the launch button was
\* clicked and both the token and the form id are non-empty; a launched run
\* with either one empty shows the warning and stops with nothing fetched
\* or rendered.
C10_NoFetchWithoutCredentials ==
  /\ (pc = "fetching" \/ inflight > 0 \/ fetch_calls > 0)
       => (start_dashboard /\ api_token # "" /\ form_id # "")
  /\ (pc = "idle" /\ start_dashboard /\ (api_token = "" \/ form_id = ""))
       => /\ shown = {"creds_warning"} /\ ending = "stopped"
          /\ fetch_calls = 0 /\ inflight = 0 /\ steps = <<>> /\ df = None

C10_Witness ==
  /\ pc = "idle" /\ start_dashboard /\ api_token = "tok" /\ form_id = ""
  /\ shown = {"creds_warning"}
====
